---- MODULE Spec2Model ----
EXTENDS Integers, Sequences, FiniteSets, TLC

(***************************************************************************)
(* Model of the lexer primitives of src/parser: the buffered byte source   *)
(* SourceBytes, the UTF-8 decoder SourceChars layered on it (iter.rs) and  *)
(* the Cursor state machine (lexer.rs), with the Scanner draft that       *)
(* lexer.rs keeps in comments (selection, take, peek over a &str source), *)
(* and of the conversions into and out of Value (src/value.rs).           *)
(*                                                                         *)
(* Option<T> is a sequence of length 0 (None) or 1 (Some).  A byte slice   *)
(* and a &str are both the sequence of their bytes; a char is its code     *)
(* point.                                                                  *)
(***************************************************************************)

VARIABLES
    input,      \* the bytes the underlying stream was created over
    iter,       \* SourceBytes.iter: what the stream has not yielded yet
    buffer,     \* SourceBytes.buffer: the VecDeque of pulled, unconsumed bytes
    consumed,   \* history: the bytes SourceBytes::next has returned, in order
    out,        \* history: the chars SourceChars::next has returned, in order
    last,       \* history: the last call [op, arg, ret, polls, pulled]
    prev,       \* history: the call before it [op, arg, ret]
    mark,       \* history: the buffer/look call made on the fresh source, while
                \* only next() of the same layer has followed it [kind, arg, ret]
    since,      \* history: what each next() of that layer returned after mark,
                \* up to the first that returned nothing
    onlyNext,   \* history: every call so far was SourceChars::next
    fail,       \* history: the last lookahead returned nothing, while only next()
                \* has followed it [on, at, outAt]: how much had been consumed
    reach,      \* history: the furthest item of the stream a call of
                \* SourceBytes::buffer has asked for, counted from its start
                \* (its last item, when the call asked for more than it has)
    cursor,     \* the Cursor value
    cLast,      \* history: the last Cursor call [op, arg, before]
    cPrev,      \* history: the Cursor call before it [op, arg, before]
    source,     \* Scanner.source: the &str the scanner draft reads
    sLast,      \* history: the last Scanner call [op, arg, ret, before]
    sPrev,      \* history: the Scanner call before it [op, arg, ret]
    seen,       \* history: the last peek [arg, ret, before, age], for the two
                \* calls that follow it
    steps,      \* history: [taken, open, plain]: the sum of the counts taken,
                \* the sum of those taken since the last selection(), whether
                \* every take() so far had count >= 1 and its own selection()
    value,      \* the Value the last From conversion made
    origin,     \* history: what it was made from [ty, opt, x]
    inner,      \* history: the last into_inner() on it [ty, opt, ret]
    tail,       \* the stream goes on after the bytes of input: Some(b) if it
                \* yields b for ever, None if it ends there
    pc,         \* where a stepwise call of SourceChars::buffer is: "new" (no
                \* stream given yet), "idle", "loop" (before an iteration),
                \* "test" (buf in hand, before from_utf8) or "returned"
    frame       \* that call: [count, byte_count, buf, ret, start], start the
                \* source it was called on

iterVars ==
    <<input, iter, buffer, consumed, out, last, prev, mark, since, onlyNext, fail,
      reach>>
cursorVars == <<cursor, cLast, cPrev>>
scannerVars == <<source, sLast, sPrev, seen, steps>>
valueVars == <<value, origin, inner>>
loopVars == <<tail, pc, frame>>
vars == <<input, iter, buffer, consumed, out, last, prev, mark, since, onlyNext,
          fail, reach, cursor, cLast, cPrev, source, sLast, sPrev, seen, steps,
          value, origin, inner, tail, pc, frame>>

\* ---------------------------------------------------------------- bounds

MaxChars == 2      \* longest input given as a string of characters
MaxBytes == 4      \* longest input given as raw bytes
MaxCount == 2      \* largest count passed to buffer/look
MaxExtend == 3     \* largest count passed to Cursor::extend
MaxIndex == 7      \* Cursor positions and lengths explored
MaxSource == 3     \* longest Scanner source, in characters
MaxTake == 2       \* largest count passed to Scanner::take and Scanner::peek
MaxPos == 4        \* Scanner positions explored
MaxLoopBytes == 3  \* longest input explored step by step, in bytes
MaxDecodeBytes == 5  \* longest input of raw bytes given to SourceChars::next alone


\* the largest byte_count explored in the loop of SourceChars::buffer: a loop
\* over a stream that ends has returned by Len(input) + 1
MaxWindow == MaxLoopBytes + MaxCount + 2

\* 'a' (1 byte), e-acute (2 bytes), euro sign (3 bytes), U+1F600 (4 bytes)
CharAlphabet == {97, 233, 8364, 128512}

\* 'a', the lead byte 0xC3, the continuation byte 0xA9
RawAlphabet == {97, 195, 169}

\* '1' (1 byte), e-acute (2 bytes)
ScannerAlphabet == {49, 233}

\* ---------------------------------------------------------------- helpers

None == <<>>
Some(x) == <<x>>

Min(a, b) == IF a < b THEN a ELSE b
Max(a, b) == IF a < b THEN b ELSE a

SeqsUpTo(S, n) == UNION {[1..k -> S] : k \in 0..n}

Drop(s, n) == SubSeq(s, n + 1, Len(s))
Take(s, n) == SubSeq(s, 1, Min(n, Len(s)))

\* ---------------------------------------------------------------- UTF-8

InRange(b, lo, hi) == lo <= b /\ b <= hi

\* char::encode_utf8, as str::bytes() yields it
EncodeChar(c) ==
    IF c < 128 THEN <<c>>
    ELSE IF c < 2048 THEN <<192 + (c \div 64), 128 + (c % 64)>>
    ELSE IF c < 65536 THEN
        <<224 + (c \div 4096), 128 + ((c \div 64) % 64), 128 + (c % 64)>>
    ELSE <<240 + (c \div 262144), 128 + ((c \div 4096) % 64),
           128 + ((c \div 64) % 64), 128 + (c % 64)>>

RECURSIVE EncodeStr(_)
EncodeStr(s) ==
    IF s = <<>> THEN <<>> ELSE EncodeChar(Head(s)) \o EncodeStr(Tail(s))

\* the length the lead byte announces, 0 for a byte that leads nothing
Utf8CharWidth(b) ==
    IF b < 128 THEN 1
    ELSE IF InRange(b, 194, 223) THEN 2
    ELSE IF InRange(b, 224, 239) THEN 3
    ELSE IF InRange(b, 240, 244) THEN 4
    ELSE 0

\* the length of the well-formed sequence bs starts with, 0 if it starts with
\* none (ill-formed or cut short)
Utf8SeqLen(bs) ==
    IF bs = <<>> THEN 0
    ELSE LET w == Utf8CharWidth(bs[1]) IN
         IF w = 0 \/ Len(bs) < w THEN 0
         ELSE IF w = 1 THEN 1
         ELSE IF w = 2 THEN (IF InRange(bs[2], 128, 191) THEN 2 ELSE 0)
         ELSE IF w = 3 THEN
             (IF /\ \/ bs[1] = 224 /\ InRange(bs[2], 160, 191)
                    \/ InRange(bs[1], 225, 236) /\ InRange(bs[2], 128, 191)
                    \/ bs[1] = 237 /\ InRange(bs[2], 128, 159)
                    \/ InRange(bs[1], 238, 239) /\ InRange(bs[2], 128, 191)
                 /\ InRange(bs[3], 128, 191)
              THEN 3 ELSE 0)
         ELSE
             (IF /\ \/ bs[1] = 240 /\ InRange(bs[2], 144, 191)
                    \/ InRange(bs[1], 241, 243) /\ InRange(bs[2], 128, 191)
                    \/ bs[1] = 244 /\ InRange(bs[2], 128, 143)
                 /\ InRange(bs[3], 128, 191)
                 /\ InRange(bs[4], 128, 191)
              THEN 4 ELSE 0)

\* std::str::from_utf8(bs).is_ok()
RECURSIVE Utf8Valid(_)
Utf8Valid(bs) ==
    \/ bs = <<>>
    \/ /\ Utf8SeqLen(bs) > 0
       /\ Utf8Valid(Drop(bs, Utf8SeqLen(bs)))

\* the code point of one well-formed sequence
DecodeChar(bs) ==
    IF Len(bs) = 1 THEN bs[1]
    ELSE IF Len(bs) = 2 THEN (bs[1] % 32) * 64 + (bs[2] % 64)
    ELSE IF Len(bs) = 3 THEN
        (bs[1] % 16) * 4096 + (bs[2] % 64) * 64 + (bs[3] % 64)
    ELSE (bs[1] % 8) * 262144 + (bs[2] % 64) * 4096 + (bs[3] % 64) * 64
         + (bs[4] % 64)

\* str::chars() of a valid string, collected
RECURSIVE Utf8Chars(_)
Utf8Chars(bs) ==
    IF bs = <<>> THEN <<>>
    ELSE LET n == Utf8SeqLen(bs) IN
         <<DecodeChar(Take(bs, n))>> \o Utf8Chars(Drop(bs, n))

\* ---------------------------------------------------------------- SourceBytes
\* A source is [iter, buffer]; a call returns the source after it with the
\* value returned (ret), the number of calls made to the stream's next()
\* (polls) and the number of items the stream yielded (pulled).

Source(it, buf) == [iter |-> it, buffer |-> buf]

Result(it, buf, ret, polls, pulled) ==
    [iter |-> it, buffer |-> buf, ret |-> ret, polls |-> polls, pulled |-> pulled]

\* SourceBytes::next, were it to ask the stream before the queue
SourceBytesNextIterFirst(s) ==
    IF s.iter # <<>>
    THEN Result(Tail(s.iter), s.buffer, Some(Head(s.iter)), 1, 1)
    ELSE IF s.buffer # <<>>
    THEN Result(s.iter, Tail(s.buffer), Some(Head(s.buffer)), 1, 0)
    ELSE Result(s.iter, s.buffer, None, 1, 0)

\* SourceBytes::next, were it to pop_back() the queue
SourceBytesNextPopBack(s) ==
    IF s.buffer # <<>>
    THEN Result(s.iter, SubSeq(s.buffer, 1, Len(s.buffer) - 1),
                Some(s.buffer[Len(s.buffer)]), 0, 0)
    ELSE IF s.iter # <<>>
    THEN Result(Tail(s.iter), s.buffer, Some(Head(s.iter)), 1, 1)
    ELSE Result(s.iter, s.buffer, None, 1, 0)

\* SourceBytes::next: buffer.pop_front().or_else(|| iter.next())
SourceBytesNext(s) ==
    IF s.buffer # <<>>
    THEN Result(s.iter, Tail(s.buffer), Some(Head(s.buffer)), 0, 0)
    ELSE IF s.iter # <<>>
    THEN Result(Tail(s.iter), s.buffer, Some(Head(s.iter)), 1, 1)
    ELSE Result(s.iter, s.buffer, None, 1, 0)

\* SourceBytes::buffer, were it to keep what it pulled only when it succeeds
SourceBytesBufferDropsPulled(s, count) ==
    LET want == IF Len(s.buffer) < count THEN count - Len(s.buffer) ELSE 0
        got == Min(want, Len(s.iter))
        buf == s.buffer \o Take(s.iter, got)
    IN Result(Drop(s.iter, got), IF count <= Len(buf) THEN buf ELSE s.buffer,
              IF count <= Len(buf) THEN Some(Take(buf, count)) ELSE None,
              IF got < want THEN got + 1 ELSE got, got)

\* SourceBytes::buffer, were it to pull only into an empty queue
SourceBytesBufferOnlyWhenEmpty(s, count) ==
    LET want == IF s.buffer = <<>> THEN count ELSE 0
        got == Min(want, Len(s.iter))
        buf == s.buffer \o Take(s.iter, got)
    IN Result(Drop(s.iter, got), buf,
              IF count <= Len(buf) THEN Some(Take(buf, count)) ELSE None,
              IF got < want THEN got + 1 ELSE got, got)

\* SourceBytes::buffer, were it to pull iter.take(count) whatever is queued
SourceBytesBufferTakeCount(s, count) ==
    LET want == count
        got == Min(want, Len(s.iter))
        buf == s.buffer \o Take(s.iter, got)
    IN Result(Drop(s.iter, got), buf,
              IF count <= Len(buf) THEN Some(Take(buf, count)) ELSE None,
              IF got < want THEN got + 1 ELSE got, got)

\* SourceBytes::buffer: extend the queue by iter.take(count - len) when it is
\* shorter than count (Take stops at the first None, which costs one more
\* call), then make_contiguous().get(0..count)
SourceBytesBuffer(s, count) ==
    LET want == IF Len(s.buffer) < count THEN count - Len(s.buffer) ELSE 0
        got == Min(want, Len(s.iter))
        buf == s.buffer \o Take(s.iter, got)
    IN Result(Drop(s.iter, got), buf,
              IF count <= Len(buf) THEN Some(Take(buf, count)) ELSE None,
              IF got < want THEN got + 1 ELSE got, got)

\* SourceBytes::peek, were it to take the item with next()
SourceBytesPeekConsuming(s) == SourceBytesNext(s)

\* SourceBytes::peek: buffer(1).and_then(|slice| slice.first().copied())
SourceBytesPeek(s) ==
    LET r == SourceBytesBuffer(s, 1) IN
    [r EXCEPT !.ret = IF r.ret = None \/ r.ret[1] = <<>>
                      THEN None ELSE Some(Head(r.ret[1]))]

\* SourceBytes::look
SourceBytesLook(s, count) == SourceBytesBuffer(s, count)

\* ---------------------------------------------------------------- SourceChars
\* SourceChars(S) holds nothing but the byte source S it wraps, so a call takes
\* and returns the byte source; taken lists the bytes it removed from it.

CharsResult(r, ret, polls, pulled, taken) ==
    [iter |-> r.iter, buffer |-> r.buffer, ret |-> ret, polls |-> polls,
     pulled |-> pulled, taken |-> taken]

\* the loop of SourceChars::next, were it to take(3)
RECURSIVE SourceCharsNextLoopTake3(_, _, _, _)
SourceCharsNextLoopTake3(s, buf, polls, pulled) ==
    IF Len(buf) = 3 THEN CharsResult(s, None, polls, pulled, buf)
    ELSE LET r == SourceBytesNext(s) IN
         IF r.ret = None
         THEN CharsResult(r, None, polls + r.polls, pulled + r.pulled, buf)
         ELSE LET b == Append(buf, r.ret[1]) IN
              IF Utf8Valid(b)
              THEN CharsResult(r, Some(Head(Utf8Chars(b))), polls + r.polls,
                               pulled + r.pulled, b)
              ELSE SourceCharsNextLoopTake3(Source(r.iter, r.buffer), b,
                                            polls + r.polls, pulled + r.pulled)

\* the loop of SourceChars::next: for (i, byte) in self.0.by_ref().take(4)
RECURSIVE SourceCharsNextLoop(_, _, _, _)
SourceCharsNextLoop(s, buf, polls, pulled) ==
    IF Len(buf) = 4 THEN CharsResult(s, None, polls, pulled, buf)
    ELSE LET r == SourceBytesNext(s) IN
         IF r.ret = None
         THEN CharsResult(r, None, polls + r.polls, pulled + r.pulled, buf)
         ELSE LET b == Append(buf, r.ret[1]) IN
              IF Utf8Valid(b)
              THEN CharsResult(r, Some(Head(Utf8Chars(b))), polls + r.polls,
                               pulled + r.pulled, b)
              ELSE SourceCharsNextLoop(Source(r.iter, r.buffer), b,
                                       polls + r.polls, pulled + r.pulled)

\* SourceChars::next, were it to read the stream under the byte source's queue
SourceCharsNextSkipBuffer(s) ==
    LET r == SourceCharsNextLoop(Source(s.iter, <<>>), <<>>, 0, 0) IN
    [r EXCEPT !.buffer = s.buffer]

\* SourceChars::next
SourceCharsNext(s) == SourceCharsNextLoop(s, <<>>, 0, 0)

\* the loop of SourceChars::buffer: for byte_count in 0..
RECURSIVE SourceCharsBufferLoop(_, _, _, _, _)
SourceCharsBufferLoop(s, count, byte_count, polls, pulled) ==
    LET r == SourceBytesBuffer(s, byte_count) IN
    IF r.ret = None
    THEN CharsResult(r, None, polls + r.polls, pulled + r.pulled, <<>>)
    ELSE IF Utf8Valid(r.ret[1]) /\ Len(Utf8Chars(r.ret[1])) >= count
    THEN CharsResult(r, r.ret, polls + r.polls, pulled + r.pulled, <<>>)
    ELSE SourceCharsBufferLoop(Source(r.iter, r.buffer), count, byte_count + 1,
                               polls + r.polls, pulled + r.pulled)

\* SourceChars::buffer, were its first window the bytes already queued
SourceCharsBufferFromQueue(s, count) ==
    SourceCharsBufferLoop(s, count, Len(s.buffer), 0, 0)

\* SourceChars::buffer
SourceCharsBuffer(s, count) == SourceCharsBufferLoop(s, count, 0, 0, 0)

\* the byte_count of the last self.0.buffer(byte_count) of the call that
\* returned r: the length of the slice returned, or one more than the queue
\* holds when that call returned None
SourceCharsBufferAsked(r) ==
    IF r.ret = None THEN Len(r.buffer) + 1 ELSE Len(r.ret[1])

\* SourceChars::peek: buffer(1).and_then(|slice| slice.chars().next())
SourceCharsPeek(s) ==
    LET r == SourceCharsBuffer(s, 1) IN
    [r EXCEPT !.ret = IF r.ret = None \/ r.ret[1] = <<>>
                      THEN None ELSE Some(Head(Utf8Chars(r.ret[1])))]

\* SourceChars::look
SourceCharsLook(s, count) == SourceCharsBuffer(s, count)

\* ---------------------------------------------------------------- Cursor
\* Cursor::Index(i), Cursor::Char(i), Cursor::Slice(i, n)

Index(i) == <<"Index", i>>
Char(i) == <<"Char", i>>
Slice(i, n) == <<"Slice", i, n>>

\* Cursor::new
CursorNew == Index(0)

\* Cursor::index
CursorIndex(c) == c[2]

\* Cursor::len
CursorLen(c) ==
    IF c[1] = "Index" THEN 0 ELSE IF c[1] = "Char" THEN 1 ELSE c[3]

\* Cursor::is_empty, were it to match Index alone
CursorIsEmptyOnlyIndex(c) == c[1] = "Index"

\* Cursor::is_empty
CursorIsEmpty(c) == c[1] = "Index" \/ (c[1] = "Slice" /\ c[3] = 0)

\* Cursor::advance, were it to step from Index too
CursorAdvanceAlwaysSteps(c) ==
    IF c[1] = "Index" THEN Index(c[2] + 1)
    ELSE IF c[1] = "Char" THEN Index(c[2] + 1)
    ELSE Index(c[2] + c[3])

\* Cursor::advance, were it to drop the position of a slice
CursorAdvanceToLength(c) ==
    IF c[1] = "Index" THEN c
    ELSE IF c[1] = "Char" THEN Index(c[2] + 1)
    ELSE Index(c[3])

\* Cursor::advance
CursorAdvance(c) ==
    IF c[1] = "Index" THEN c
    ELSE IF c[1] = "Char" THEN Index(c[2] + 1)
    ELSE Index(c[2] + c[3])

\* Cursor::extend, were it to forget the character already matched
CursorExtendForgetsChar(c, count) ==
    IF c[1] = "Index" /\ count = 1 THEN Char(c[2])
    ELSE IF c[1] = "Index" THEN Slice(c[2], count)
    ELSE IF c[1] = "Char" THEN Slice(c[2], count)
    ELSE Slice(c[2], c[3] + count)

\* Cursor::extend
CursorExtend(c, count) ==
    IF c[1] = "Index" /\ count = 1 THEN Char(c[2])
    ELSE IF c[1] = "Index" THEN Slice(c[2], count)
    ELSE IF c[1] = "Char" THEN Slice(c[2], 1 + count)
    ELSE Slice(c[2], c[3] + count)

\* ---------------------------------------------------------------- Scanner
\* The draft of selection/take/peek reads a &str: source is the sequence of its
\* bytes.  A call returns [ret, cursor]: the value returned and the cursor the
\* live scanner holds after it.

SelectionEmpty == <<"Empty">>
SelectionChar(ch) == <<"Char", ch>>
SelectionSlice(slice) == <<"Slice", slice>>
SelectionEndOfFile == <<"EndOfFile">>

\* str::chars().nth(n)
StrCharsNth(s, n) ==
    LET chars == Utf8Chars(s) IN
    IF n < Len(chars) THEN Some(chars[n + 1]) ELSE None

\* str::is_char_boundary
StrIsCharBoundary(s, i) ==
    IF i = 0 THEN TRUE
    ELSE IF i >= Len(s) THEN i = Len(s)
    ELSE ~InRange(s[i + 1], 128, 191)

\* str::get(from..to): byte offsets, nothing unless both are char boundaries
StrGet(s, from, to) ==
    IF from <= to /\ StrIsCharBoundary(s, from) /\ StrIsCharBoundary(s, to)
    THEN Some(SubSeq(s, from + 1, to))
    ELSE None

\* the value selection() computes before it advances
ScannerMaterialize(src, c) ==
    IF c[1] = "Index" THEN SelectionEmpty
    ELSE IF c[1] = "Char" THEN
        (LET ch == StrCharsNth(src, c[2]) IN
         IF ch = None THEN SelectionEndOfFile ELSE SelectionChar(ch[1]))
    ELSE
        (LET slice == StrGet(src, c[2], c[2] + c[3]) IN
         IF slice = None THEN SelectionEndOfFile ELSE SelectionSlice(slice[1]))

ScannerSelectionAdvanceOnSuccess(src, c) ==
    LET buf == ScannerMaterialize(src, c) IN
    [ret |-> buf,
     cursor |-> IF buf = SelectionEndOfFile THEN Index(c[2]) ELSE CursorAdvance(c)]

\* Scanner::selection
ScannerSelection(src, c) ==
    [ret |-> ScannerMaterialize(src, c), cursor |-> CursorAdvance(c)]

\* Scanner::take
ScannerTake(c, count) == CursorExtend(c, count)

ScannerPeekCommits(src, c, count) ==
    ScannerSelection(src, ScannerTake(CursorAdvance(c), count))

\* Scanner::peek: selection() on a copy of the scanner
ScannerPeek(src, c, count) ==
    LET scan == ScannerSelection(src, ScannerTake(CursorAdvance(c), count)) IN
    [ret |-> scan.ret, cursor |-> c]

\* ---------------------------------------------------------------- Value
\* A Value is <<variant, inner>>, Null is <<"Null">>; a Cow is <<"Borrowed", s>>
\* or <<"Owned", s>>, a string the sequence of its bytes.  A conversion the
\* crate has no impl for (a call that does not compile) is NoImpl.

ValueNull == <<"Null">>
NoImpl == <<"NoImpl">>
Ok(x) == <<"Ok", x>>
Err(variant, into_type) == <<"Err", variant, into_type>>

\* the types impl_from! is invoked for, with the variant of each
ImplFromTypes ==
    {"u8", "u16", "u32", "u64", "usize", "i8", "i16", "i32", "i64", "isize",
     "f32", "f64", "bool", "Vec<Value>"}

\* the types impl_into_inner! is invoked for
ImplIntoInnerTypes == ImplFromTypes \cup {"Cow<str>"}

VariantOf(ty) ==
    CASE ty = "u8" -> "U8"
      [] ty = "u16" -> "U16"
      [] ty = "u32" -> "U32"
      [] ty = "u64" -> "U64"
      [] ty = "usize" -> "Uint"
      [] ty = "i8" -> "I8"
      [] ty = "i16" -> "I16"
      [] ty = "i32" -> "I32"
      [] ty = "i64" -> "I64"
      [] ty = "isize" -> "Int"
      [] ty = "f32" -> "F32"
      [] ty = "f64" -> "F64"
      [] ty = "bool" -> "Bool"
      [] ty = "Vec<Value>" -> "List"
      [] ty = "Cow<str>" -> "String"

ValueFromStringBorrowed(ty, x) ==
    IF ty \in ImplFromTypes THEN <<VariantOf(ty), x>>
    ELSE IF ty \in {"String", "&String", "&str"} THEN <<"String", <<"Borrowed", x>>>>
    ELSE NoImpl

\* Value::from(x) for x of type ty
ValueFrom(ty, x) ==
    IF ty \in ImplFromTypes THEN <<VariantOf(ty), x>>
    ELSE IF ty = "String" THEN <<"String", <<"Owned", x>>>>
    ELSE IF ty \in {"&String", "&str"} THEN <<"String", <<"Borrowed", x>>>>
    ELSE NoImpl

\* Value::from(o) for o of type Option<ty>
ValueFromOption(ty, o) ==
    IF ty \in ImplFromTypes
    THEN (IF o = None THEN ValueNull ELSE ValueFrom(ty, o[1]))
    ELSE NoImpl

\* IntoInner<ty>::into_inner
ValueIntoInner(v, ty) ==
    IF ty \in ImplIntoInnerTypes THEN
        (IF v[1] = VariantOf(ty) THEN Ok(v[2]) ELSE Err(v[1], ty))
    ELSE IF ty = "&str" THEN
        (IF v[1] = "String" /\ v[2][1] = "Borrowed" THEN Ok(v[2][2]) ELSE Err(v[1], ty))
    ELSE IF ty = "String" THEN
        (IF v[1] = "String" /\ v[2][1] = "Owned" THEN Ok(v[2][2]) ELSE Err(v[1], ty))
    ELSE NoImpl

\* IntoInner<Option<ty>>::into_inner
ValueIntoInnerOption(v, ty) ==
    IF ty \in ImplIntoInnerTypes THEN
        (IF v[1] = VariantOf(ty) THEN Ok(Some(v[2]))
         ELSE IF v = ValueNull THEN Ok(None)
         ELSE Err(v[1], <<"Option", ty>>))
    ELSE NoImpl

\* ---------------------------------------------------------------- initial states

\* the inputs explored: short strings of raw bytes, well-formed UTF-8 or not,
\* and the UTF-8 encodings of short strings
Strings == SeqsUpTo(CharAlphabet, MaxChars)
RawInputs == SeqsUpTo(RawAlphabet, MaxBytes)
Inputs == {EncodeStr(s) : s \in Strings} \cup RawInputs

NoCall == [op |-> "new", arg |-> 0, ret |-> None, polls |-> 0, pulled |-> 0]
NoPrev == [op |-> "new", arg |-> 0, ret |-> None]
NoMark == [kind |-> "none", arg |-> 0, ret |-> None]
NoFail == [on |-> FALSE, at |-> 0, outAt |-> 0]
NoCursorCall == [op |-> "new", arg |-> 0, before |-> CursorNew]
NoScannerCall == [op |-> "new", arg |-> 0, ret |-> SelectionEmpty, before |-> CursorNew]
NoScannerPrev == [op |-> "new", arg |-> 0, ret |-> SelectionEmpty]
NoSeen == [arg |-> 0, ret |-> SelectionEmpty, before |-> CursorNew, age |-> 3]
NoOrigin == [ty |-> "Null", opt |-> FALSE, x |-> None]
NoInner == [ty |-> "none", opt |-> FALSE, ret |-> NoImpl]
NoFrame ==
    [count |-> 0, byte_count |-> 0, buf |-> <<>>, ret |-> None,
     start |-> Source(<<>>, <<>>)]

\* SourceBytes::new / SourceChars::new over a stream of the bytes in
InitSource(in) ==
    /\ input = in
    /\ iter = in
    /\ buffer = <<>>
    /\ consumed = <<>>
    /\ out = <<>>
    /\ last = NoCall
    /\ prev = NoPrev
    /\ mark = NoMark
    /\ since = <<>>
    /\ onlyNext = TRUE
    /\ fail = NoFail
    /\ reach = 0

\* Cursor::new
InitCursor ==
    /\ cursor = CursorNew
    /\ cLast = NoCursorCall
    /\ cPrev = NoCursorCall

\* Scanner::new over the text src
InitScanner(src) ==
    /\ source = src
    /\ sLast = NoScannerCall
    /\ sPrev = NoScannerPrev
    /\ seen = NoSeen
    /\ steps = [taken |-> 0, open |-> 0, plain |-> TRUE]

\* the literal Value::Null, nothing converted yet
InitValue ==
    /\ value = ValueNull
    /\ origin = NoOrigin
    /\ inner = NoInner

\* no stepwise call of SourceChars::buffer is running, over a stream that
\* ends after input (tl = None) or goes on with the byte tl[1] for ever
InitLoop(tl) ==
    /\ tail = tl
    /\ pc = "idle"
    /\ frame = NoFrame

\* a SourceBytes over a stream of raw bytes
Init ==
    /\ \E in \in RawInputs : InitSource(in)
    /\ InitCursor
    /\ InitScanner(<<>>)
    /\ InitValue
    /\ InitLoop(None)

\* a SourceChars over a SourceBytes over a stream of bytes
InitChars ==
    /\ \E in \in Inputs : InitSource(in)
    /\ InitCursor
    /\ InitScanner(<<>>)
    /\ InitValue
    /\ InitLoop(None)

\* ---------------------------------------------------------------- calls on the sources

\* nothing pulled, nothing buffered, nothing consumed
Fresh == consumed = <<>> /\ buffer = <<>> /\ iter = input

Called(r, op, arg) ==
    /\ iter' = r.iter
    /\ buffer' = r.buffer
    /\ last' = [op |-> op, arg |-> arg, ret |-> r.ret, polls |-> r.polls,
                pulled |-> r.pulled]
    /\ prev' = [op |-> last.op, arg |-> last.arg, ret |-> last.ret]
    /\ fail' = IF op \in {"next", "chars.next"} THEN fail
               ELSE IF r.ret = None
               THEN [on |-> TRUE, at |-> Len(consumed), outAt |-> Len(out)]
               ELSE NoFail
    /\ UNCHANGED <<input, cursorVars, scannerVars, valueVars, loopVars>>

\* SourceBytes::buffer(n) is called, by look, by peek or by SourceChars::buffer:
\* it asks for the n items after those consumed, as far as the stream has them
Asked(n) ==
    reach' = Max(reach, IF tail = None THEN Min(Len(input), Len(consumed) + n)
                        ELSE Len(consumed) + n)

Marked(kind, arg, r) ==
    /\ mark' = IF Fresh THEN [kind |-> kind, arg |-> arg, ret |-> r.ret] ELSE NoMark
    /\ since' = <<>>

Unmarked == mark' = NoMark /\ since' = <<>>

\* next() of the layer kind returned ret
Consumed(kind, ret) ==
    IF mark.kind = kind
    THEN /\ mark' = mark
         /\ since' = IF since # <<>> /\ since[Len(since)] = None
                     THEN since ELSE Append(since, ret)
    ELSE Unmarked

\* SourceBytes::next is called
BytesNext ==
    LET r == SourceBytesNext(Source(iter, buffer)) IN
    /\ Called(r, "next", 0)
    /\ consumed' = consumed \o r.ret
    /\ Consumed("bytes", r.ret)
    /\ onlyNext' = FALSE
    /\ UNCHANGED <<out, reach>>

\* SourceBytes::buffer(count) is called
BytesBuffer ==
    \E count \in 0..MaxCount :
        LET r == SourceBytesBuffer(Source(iter, buffer), count) IN
        /\ Called(r, "buffer", count)
        /\ Marked("bytes", count, r)
        /\ Asked(count)
        /\ onlyNext' = FALSE
        /\ UNCHANGED <<consumed, out>>

\* SourceBytes::look(count) is called: it is buffer(count), and recorded as it
BytesLook ==
    \E count \in 0..MaxCount :
        LET r == SourceBytesLook(Source(iter, buffer), count) IN
        /\ Called(r, "buffer", count)
        /\ Marked("bytes", count, r)
        /\ Asked(count)
        /\ onlyNext' = FALSE
        /\ UNCHANGED <<consumed, out>>

\* SourceBytes::peek is called
BytesPeek ==
    LET r == SourceBytesPeek(Source(iter, buffer)) IN
    /\ Called(r, "peek", 0)
    /\ Unmarked
    /\ Asked(1)
    /\ onlyNext' = FALSE
    /\ UNCHANGED <<consumed, out>>

\* SourceChars::next is called
CharsNext ==
    LET r == SourceCharsNext(Source(iter, buffer)) IN
    /\ Called(r, "chars.next", 0)
    /\ consumed' = consumed \o r.taken
    /\ out' = out \o r.ret
    /\ Consumed("chars", r.ret)
    /\ UNCHANGED <<onlyNext, reach>>

\* SourceChars::buffer(count) is called
CharsBuffer ==
    \E count \in 0..MaxCount :
        LET r == SourceCharsBuffer(Source(iter, buffer), count) IN
        /\ Called(r, "chars.buffer", count)
        /\ Marked("chars", count, r)
        /\ Asked(SourceCharsBufferAsked(r))
        /\ onlyNext' = FALSE
        /\ UNCHANGED <<consumed, out>>

\* SourceChars::look(count) is called: it is buffer(count), and recorded as it
CharsLook ==
    \E count \in 0..MaxCount :
        LET r == SourceCharsLook(Source(iter, buffer), count) IN
        /\ Called(r, "chars.buffer", count)
        /\ Marked("chars", count, r)
        /\ Asked(SourceCharsBufferAsked(r))
        /\ onlyNext' = FALSE
        /\ UNCHANGED <<consumed, out>>

\* SourceChars::peek is called
CharsPeek ==
    LET r == SourceCharsPeek(Source(iter, buffer)) IN
    /\ Called(r, "chars.peek", 0)
    /\ Unmarked
    /\ Asked(SourceCharsBufferAsked(SourceCharsBuffer(Source(iter, buffer), 1)))
    /\ onlyNext' = FALSE
    /\ UNCHANGED <<consumed, out>>

\* the byte source alone
Next ==
    \/ BytesNext
    \/ BytesBuffer
    \/ BytesLook
    \/ BytesPeek

Spec == Init /\ [][Next]_vars

\* the decoder over the byte source; between the decoder's calls the byte
\* source can be peeked at
NextChars ==
    \/ CharsNext
    \/ CharsBuffer
    \/ CharsLook
    \/ CharsPeek
    \/ BytesPeek

SpecChars == InitChars /\ [][NextChars]_vars

\* lookahead of both layers on one source, with SourceChars::next consuming:
\* over encoded strings and over raw bytes no longer than a lookahead
LookaheadInputs == {EncodeStr(s) : s \in Strings} \cup SeqsUpTo(RawAlphabet, MaxCount)

InitLookahead ==
    /\ \E in \in LookaheadInputs : InitSource(in)
    /\ InitCursor
    /\ InitScanner(<<>>)
    /\ InitValue
    /\ InitLoop(None)

NextLookahead ==
    \/ CharsNext
    \/ CharsBuffer
    \/ CharsPeek
    \/ BytesBuffer
    \/ BytesPeek

SpecLookahead == InitLookahead /\ [][NextLookahead]_vars

\* SourceChars::next taking its bytes from a byte source whose queue a
\* lookahead of the byte layer has filled, part of a character included
NextTake ==
    \/ CharsNext
    \/ BytesBuffer

SpecTake == InitChars /\ [][NextTake]_vars

\* ---------------------------------------------------------------- calls on the cursor

CursorCalled(op, arg) ==
    /\ cLast' = [op |-> op, arg |-> arg, before |-> cursor]
    /\ cPrev' = cLast
    /\ UNCHANGED <<iterVars, scannerVars, valueVars, loopVars>>

Extend ==
    \E count \in 0..MaxExtend :
        /\ CursorLen(cursor) + count <= MaxIndex
        /\ cursor' = CursorExtend(cursor, count)
        /\ CursorCalled("extend", count)

Advance ==
    /\ CursorIndex(cursor) + CursorLen(cursor) <= MaxIndex
    /\ cursor' = CursorAdvance(cursor)
    /\ CursorCalled("advance", 0)

InitCursorOnly ==
    InitSource(<<>>) /\ InitCursor /\ InitScanner(<<>>) /\ InitValue /\ InitLoop(None)

NextCursor ==
    \/ Extend
    \/ Advance

SpecCursor == InitCursorOnly /\ [][NextCursor]_vars

\* ---------------------------------------------------------------- calls on the Scanner

Sources == {EncodeStr(s) : s \in SeqsUpTo(ScannerAlphabet, MaxSource)}

InitScannerOnly ==
    /\ InitSource(<<>>)
    /\ InitCursor
    /\ \E src \in Sources : InitScanner(src)
    /\ InitValue
    /\ InitLoop(None)

\* the call op(arg) returned r.ret and left r.cursor; the arg recorded for
\* selection() is the sum of the counts taken since the selection() before
ScannerCalled(r, op, arg) ==
    /\ cursor' = r.cursor
    /\ sLast' = [op |-> op, arg |-> arg, ret |-> r.ret, before |-> cursor]
    /\ sPrev' = [op |-> sLast.op, arg |-> sLast.arg, ret |-> sLast.ret]
    /\ UNCHANGED <<iterVars, cLast, cPrev, source, valueVars, loopVars>>

\* a peek stays on record for the two calls after it
SeenAges == seen' = IF seen.age < 2 THEN [seen EXCEPT !.age = @ + 1] ELSE NoSeen

ScanTake ==
    \E count \in 0..MaxTake :
        /\ CursorIndex(cursor) + CursorLen(cursor) + count <= MaxPos
        /\ ScannerCalled([ret |-> SelectionEmpty, cursor |-> ScannerTake(cursor, count)],
                         "take", count)
        /\ SeenAges
        /\ steps' = [taken |-> steps.taken + count,
                     open |-> steps.open + count,
                     plain |-> steps.plain /\ count >= 1 /\ steps.open = 0]

ScanSelection ==
    /\ ScannerCalled(ScannerSelection(source, cursor), "selection", steps.open)
    /\ SeenAges
    /\ steps' = [steps EXCEPT !.open = 0]

ScanPeek ==
    \E count \in 0..MaxTake :
        /\ CursorIndex(cursor) + CursorLen(cursor) + count <= MaxPos
        /\ LET r == ScannerPeek(source, cursor, count) IN
           /\ ScannerCalled(r, "peek", count)
           /\ seen' = [arg |-> count, ret |-> r.ret, before |-> cursor, age |-> 0]
        /\ UNCHANGED steps

NextScanner ==
    \/ ScanTake
    \/ ScanSelection
    \/ ScanPeek

SpecScanner == InitScannerOnly /\ [][NextScanner]_vars

\* ---------------------------------------------------------------- conversions of Value

\* the values converted: the least and the greatest of each integer type (of
\* the types wider than 31 bits, the greatest explored is 2^31 - 1), two
\* finite floats, the booleans, "" and "foo", and three lists
FooStr == <<102, 111, 111>>

ValuesOf(ty) ==
    CASE ty = "u8" -> {0, 255}
      [] ty = "u16" -> {0, 65535}
      [] ty \in {"u32", "u64", "usize"} -> {0, 2147483647}
      [] ty = "i8" -> {-128, 127}
      [] ty = "i16" -> {-32768, 32767}
      [] ty \in {"i32", "i64", "isize"} -> {-2147483647, 2147483647}
      [] ty \in {"f32", "f64"} -> {0, 1}
      [] ty = "bool" -> {FALSE, TRUE}
      [] ty \in {"String", "&String", "&str"} -> {<<>>, FooStr}
      [] ty = "Vec<Value>" ->
            {<<>>, <<ValueNull>>, <<<<"U8", 1>>, <<"String", <<"Borrowed", FooStr>>>>>>}

FromTypes == ImplFromTypes \cup {"String", "&String", "&str"}
IntoTypes == ImplIntoInnerTypes \cup {"String", "&str"}

\* let value = Value::from(x), x of type ty
ConvertFrom ==
    \E ty \in FromTypes : \E x \in ValuesOf(ty) :
        /\ value' = ValueFrom(ty, x)
        /\ origin' = [ty |-> ty, opt |-> FALSE, x |-> x]
        /\ inner' = NoInner
        /\ UNCHANGED <<iterVars, cursorVars, scannerVars, loopVars>>

\* let value = Value::from(o), o of type Option<ty>
ConvertFromOption ==
    \E ty \in FromTypes : \E o \in {None} \cup {Some(x) : x \in ValuesOf(ty)} :
        /\ value' = ValueFromOption(ty, o)
        /\ origin' = [ty |-> ty, opt |-> TRUE, x |-> o]
        /\ inner' = NoInner
        /\ UNCHANGED <<iterVars, cursorVars, scannerVars, loopVars>>

\* value.clone().into_inner() asked for as ty
ConvertInto ==
    \E ty \in IntoTypes :
        /\ value # NoImpl
        /\ inner' = [ty |-> ty, opt |-> FALSE, ret |-> ValueIntoInner(value, ty)]
        /\ UNCHANGED <<iterVars, cursorVars, scannerVars, loopVars, value, origin>>

\* value.clone().into_inner() asked for as Option<ty>
ConvertIntoOption ==
    \E ty \in IntoTypes :
        /\ value # NoImpl
        /\ inner' = [ty |-> ty, opt |-> TRUE, ret |-> ValueIntoInnerOption(value, ty)]
        /\ UNCHANGED <<iterVars, cursorVars, scannerVars, loopVars, value, origin>>

InitValueOnly ==
    InitSource(<<>>) /\ InitCursor /\ InitScanner(<<>>) /\ InitValue /\ InitLoop(None)

NextValue ==
    \/ ConvertFrom
    \/ ConvertFromOption
    \/ ConvertInto
    \/ ConvertIntoOption

SpecValue == InitValueOnly /\ [][NextValue]_vars

\* ---------------------------------------------------------------- SourceChars::buffer, step by step
\* One action per iteration of `for byte_count in 0..`, over a stream that
\* ends or that goes on for ever with one byte.

\* the stream it, written out far enough to yield n items if it has them
Unrolled(it, tl, n) ==
    IF tl = None \/ Len(it) >= n THEN it
    ELSE it \o [i \in 1..(n - Len(it)) |-> tl[1]]

\* self.0.buffer(byte_count) of the iteration about to run
LoopWindow ==
    SourceBytesBuffer(Source(Unrolled(iter, tail, frame.byte_count - Len(buffer)), buffer),
                      frame.byte_count)

\* from_utf8(buf) is Ok and slice.chars().count() >= count
LoopSatisfied(buf) ==
    /\ Utf8Valid(buf)
    /\ Len(Utf8Chars(buf)) >= frame.count

\* no longer window starting with buf is well-formed: neither buf nor buf
\* without its last one, two or three bytes is, so what makes buf ill-formed
\* is not a sequence cut short at its end
LoopHopeless(buf) ==
    /\ Len(buf) >= 3
    /\ \A k \in 0..3 : ~Utf8Valid(Take(buf, Len(buf) - k))

LoopStepped(r) ==
    /\ iter' = r.iter
    /\ buffer' = r.buffer
    /\ Asked(frame.byte_count)
    /\ UNCHANGED <<input, consumed, out, last, prev, mark, since, onlyNext, fail,
                   cursorVars, scannerVars, valueVars, tail>>

LoopTested ==
    UNCHANGED <<iterVars, cursorVars, scannerVars, valueVars, tail>>

\* SourceChars::buffer(count) is entered
BufferCall ==
    \E count \in 0..MaxCount :
        /\ pc \in {"idle", "returned"}
        /\ pc' = "loop"
        /\ frame' = [count |-> count, byte_count |-> 0, buf |-> <<>>, ret |-> None,
                     start |-> Source(iter, buffer)]
        /\ UNCHANGED <<iterVars, cursorVars, scannerVars, valueVars, tail>>

\* an iteration starts and self.0.buffer(byte_count)? returns None
BufferStepNone ==
    /\ pc = "loop"
    /\ LoopWindow.ret = None
    /\ LoopStepped(LoopWindow)
    /\ pc' = "returned"
    /\ frame' = [frame EXCEPT !.ret = None]

\* an iteration starts and self.0.buffer(byte_count)? returns buf
BufferStepPull ==
    /\ pc = "loop"
    /\ LoopWindow.ret # None
    /\ LoopStepped(LoopWindow)
    /\ pc' = "test"
    /\ frame' = [frame EXCEPT !.buf = LoopWindow.ret[1]]

\* the iteration returns Some(slice)
BufferStepSome ==
    /\ pc = "test"
    /\ LoopSatisfied(frame.buf)
    /\ LoopTested
    /\ pc' = "returned"
    /\ frame' = [frame EXCEPT !.ret = Some(frame.buf)]

\* the iteration ends and the loop goes on to byte_count + 1.  byte_count is
\* explored up to MaxWindow: there the loop goes on only over a window that no
\* further byte can make well-formed, and every later iteration, which ends
\* as this one does, is the iteration at MaxWindow again
BufferStepOn ==
    /\ pc = "test"
    /\ ~LoopSatisfied(frame.buf)
    /\ frame.byte_count < MaxWindow \/ LoopHopeless(frame.buf)
    /\ LoopTested
    /\ pc' = "loop"
    /\ frame' = [frame EXCEPT !.byte_count = IF @ < MaxWindow THEN @ + 1 ELSE @]

BufferStep ==
    \/ BufferStepNone
    \/ BufferStepPull
    \/ BufferStepSome
    \/ BufferStepOn

Tails == {None} \cup {Some(b) : b \in RawAlphabet}

\* the streams explored step by step
LoopInputs == {in \in Inputs : Len(in) <= MaxLoopBytes}

\* SourceChars::new(&mut SourceBytes::new(stream)), the stream yielding the
\* bytes in and then ending or going on with one byte for ever
StreamNew ==
    \E in \in LoopInputs : \E tl \in Tails :
        /\ pc = "new"
        /\ input' = in
        /\ iter' = in
        /\ tail' = tl
        /\ pc' = "idle"
        /\ UNCHANGED <<buffer, consumed, out, last, prev, mark, since, onlyNext, fail,
                       reach, cursorVars, scannerVars, valueVars, frame>>

InitLoopOnly ==
    /\ InitSource(<<>>)
    /\ InitCursor
    /\ InitScanner(<<>>)
    /\ InitValue
    /\ tail = None
    /\ pc = "new"
    /\ frame = NoFrame

NextLoop ==
    \/ StreamNew
    \/ BufferCall
    \/ BufferStepNone
    \/ BufferStepPull
    \/ BufferStepSome
    \/ BufferStepOn

\* a call that has been entered keeps running
SpecLoop == InitLoopOnly /\ [][NextLoop]_vars /\ WF_vars(BufferStep)

\* ---------------------------------------------------------------- SourceChars::next alone
\* The decoder is only consumed, over raw bytes longer than the four bytes one
\* call of next() takes.

DecodeInputs == SeqsUpTo(RawAlphabet, MaxDecodeBytes)

InitDecode ==
    /\ \E in \in DecodeInputs : InitSource(in)
    /\ InitCursor
    /\ InitScanner(<<>>)
    /\ InitValue
    /\ InitLoop(None)

NextDecode == CharsNext

SpecDecode == InitDecode /\ [][NextDecode]_vars

\* ---------------------------------------------------------------- SourceBytes: properties

\* C1: the items next() has returned, then the queue, then what the stream
\* still holds, are the input: nothing is skipped, duplicated or reordered; and
\* once next() returns nothing, everything has been returned.
OrderPreserved ==
    /\ consumed \o buffer \o iter = input
    /\ (last.op = "next" /\ last.ret = None) => (consumed = input)

OrderPreservedWitness ==
    /\ prev.op = "buffer"
    /\ last.op = "next"
    /\ consumed # <<>>
    /\ buffer # <<>>
    /\ iter # <<>>
    /\ Head(buffer) # Head(consumed)

\* C2: after look(n) on a fresh source returned n items, the next n calls of
\* next() return those items, one by one and in that order.
LookThenNext ==
    (mark.kind = "bytes" /\ mark.ret # None) =>
        /\ Len(mark.ret[1]) = mark.arg
        /\ \A i \in 1..Min(Len(since), mark.arg) : since[i] = Some(mark.ret[1][i])

LookThenNextWitness ==
    /\ mark.kind = "bytes"
    /\ mark.ret # None
    /\ mark.arg >= 2
    /\ Len(since) = mark.arg
    /\ since[1] # since[2]

\* C3: buffer(n) returns the first n items not yet consumed when that many
\* remain, queued or unread, and nothing exactly when fewer remain.
BufferReturnsPrefix ==
    last.op = "buffer" =>
        LET rest == Drop(input, Len(consumed)) IN
        IF last.arg <= Len(rest)
        THEN last.ret = Some(Take(rest, last.arg))
        ELSE last.ret = None

BufferReturnsPrefixWitness ==
    /\ last.op = "buffer"
    /\ last.arg = 2
    /\ last.ret # None
    /\ last.pulled = 1
    /\ consumed # <<>>

\* what C4 says of the views: the repeated call returns the first m items of
\* the view before it, and nothing again when the same n was refused
RepeatedView ==
    /\ prev.ret # None => last.ret = Some(Take(prev.ret[1], last.arg))
    /\ (prev.ret = None /\ last.arg = prev.arg) => last.ret = None

\* C4 as stated: buffer(m) right after buffer(n), m <= n, makes no call on the
\* stream and returns an equal view.
BufferIdempotentAlways ==
    (prev.op = "buffer" /\ last.op = "buffer" /\ last.arg <= prev.arg) =>
        /\ last.polls = 0
        /\ RepeatedView

\* C4 as amended: buffer(m) right after a buffer(n) that returned a view,
\* m <= n, makes no call on the stream and returns the first m items of that
\* view; after a buffer(n) that returned nothing, the repeated call pulls no
\* item either, but it calls the exhausted stream's next() once more whenever
\* m exceeds what is queued.
BufferIdempotent ==
    (prev.op = "buffer" /\ last.op = "buffer" /\ last.arg <= prev.arg) =>
        /\ RepeatedView
        /\ last.pulled = 0
        /\ last.polls = IF prev.ret = None /\ Len(buffer) < last.arg THEN 1 ELSE 0

BufferIdempotentWitness ==
    /\ prev.op = "buffer"
    /\ last.op = "buffer"
    /\ prev.arg = 2
    /\ last.arg = 1
    /\ prev.ret # None
    /\ last.ret = Some(Take(prev.ret[1], 1))
    /\ last.polls = 0

\* ---------------------------------------------------------------- SourceChars: properties

\* C5: peek() called twice in a row, on the byte source or on the decoder,
\* returns the same value both times, nothing included.
PeekIdempotent ==
    (last.op \in {"peek", "chars.peek"} /\ prev.op = last.op) =>
        last.ret = prev.ret

PeekIdempotentWitness ==
    /\ prev.op = "chars.peek"
    /\ last.op = "chars.peek"
    /\ last.ret = Some(8364)
    /\ out # <<>>

\* C6: after buffer(count)/look(count) on a fresh decoder over the encoding of
\* a string s, the view holds the first count characters of s (nothing, if s
\* is shorter) and the calls of next() that follow return every character of s
\* in order, then nothing.
LookaheadKeepsChars ==
    \A s \in Strings :
        (mark.kind = "chars" /\ input = EncodeStr(s)) =>
            /\ mark.ret = IF mark.arg <= Len(s)
                          THEN Some(EncodeStr(Take(s, mark.arg))) ELSE None
            /\ \A i \in 1..Len(since) :
                   since[i] = IF i <= Len(s) THEN Some(s[i]) ELSE None
            /\ (last.op = "chars.next" /\ last.ret = None) => (out = s)

LookaheadKeepsCharsWitness ==
    /\ mark.kind = "chars"
    /\ mark.arg = 1
    /\ mark.ret = Some(EncodeChar(8364))
    /\ last.op = "chars.next"
    /\ last.ret = None
    /\ out = <<8364, 233>>

\* C7: over the encoding of a string s, next() called until it returns nothing
\* returns the characters of s, in order and all of them.
DecodeRoundTrip ==
    \A s \in Strings :
        (onlyNext /\ input = EncodeStr(s)) =>
            /\ out = Take(s, Len(out))
            /\ (last.op = "chars.next" /\ last.ret = None) => (out = s)

DecodeRoundTripWitness ==
    /\ onlyNext
    /\ last.op = "chars.next"
    /\ last.ret = None
    /\ out = <<128512, 97>>

\* ---------------------------------------------------------------- Cursor: properties

\* C8: extend(count) keeps the position and grows the pending match by count:
\* Index(p) becomes Char(p) for count 1 and Slice(p, count) otherwise, Char(p)
\* becomes Slice(p, 1 + count), Slice(p, n) becomes Slice(p, n + count).
ExtendGrows ==
    cLast.op = "extend" =>
        LET b == cLast.before
            p == cLast.before[2]
            count == cLast.arg
        IN /\ cursor[2] = p
           /\ (b[1] = "Index" /\ count = 1) => (cursor = <<"Char", p>>)
           /\ (b[1] = "Index" /\ count # 1) => (cursor = <<"Slice", p, count>>)
           /\ b[1] = "Char" => (cursor = <<"Slice", p, 1 + count>>)
           /\ b[1] = "Slice" => (cursor = <<"Slice", p, b[3] + count>>)

ExtendGrowsWitness ==
    /\ cPrev.op = "extend"
    /\ cPrev.before = <<"Char", 5>>
    /\ cLast.op = "extend"
    /\ cLast.before = <<"Slice", 5, 2>>
    /\ cLast.arg = 3
    /\ cursor = <<"Slice", 5, 5>>

\* C9: advance() moves Char(p) to Index(p + 1) and Slice(p, n) to
\* Index(p + n), and leaves Index(p) alone, so a second advance() in a row
\* changes nothing.
AdvanceCommits ==
    /\ cLast.op = "advance" =>
           LET b == cLast.before IN
           /\ b[1] = "Index" => (cursor = b)
           /\ b[1] = "Char" => (cursor = <<"Index", b[2] + 1>>)
           /\ b[1] = "Slice" => (cursor = <<"Index", b[2] + b[3]>>)
    /\ (cPrev.op = "advance" /\ cLast.op = "advance") => (cursor = cLast.before)

AdvanceCommitsWitness ==
    /\ cPrev.op = "advance"
    /\ cPrev.before = <<"Slice", 0, 5>>
    /\ cLast.op = "advance"
    /\ cursor = <<"Index", 5>>

\* C10: in every step index() does not decrease, it changes only in a step of
\* advance(), and a step of extend(count) leaves it as it was.
IndexMonotone ==
    [][/\ CursorIndex(cursor') >= CursorIndex(cursor)
       /\ CursorIndex(cursor') # CursorIndex(cursor) => cLast'.op = "advance"
       /\ cLast'.op = "extend" => CursorIndex(cursor') = CursorIndex(cursor)]_vars

IndexMonotoneWitness ==
    /\ cPrev.op = "extend"
    /\ cLast.op = "advance"
    /\ CursorIndex(cPrev.before) > 0
    /\ CursorIndex(cLast.before) = CursorIndex(cPrev.before)
    /\ CursorIndex(cursor) > CursorIndex(cLast.before)

\* what C11 says: len() is 0 only in the Index state.
LenZeroOnlyIndexAlways == CursorLen(cursor) = 0 => cursor[1] = "Index"

\* C11 as amended: len() is 0 only in the Index state or in Slice(p, 0), which
\* only extend(0) on a cursor of length 0 produces; extend(count) with
\* count >= 1 leaves a length of at least 1 and advance() leaves Index.
LenZeroOnlyIndex ==
    /\ (CursorLen(cursor) = 0 /\ cursor[1] # "Index") =>
           /\ cursor[1] = "Slice"
           /\ cLast.op = "extend"
           /\ cLast.arg = 0
           /\ CursorLen(cLast.before) = 0
    /\ (cLast.op = "extend" /\ cLast.arg >= 1) => CursorLen(cursor) >= 1
    /\ cLast.op = "advance" => cursor[1] = "Index"

LenZeroOnlyIndexWitness ==
    /\ cLast.op = "extend"
    /\ cLast.arg = 0
    /\ cLast.before = <<"Index", 5>>
    /\ cursor = <<"Slice", 5, 0>>
    /\ CursorLen(cursor) = 0

\* ---------------------------------------------------------------- Scanner: properties

\* C12: selection() called with the cursor at p and a pending length of L
\* leaves the cursor at Index(p + L), whether it returned Empty, Char, Slice
\* or EndOfFile: it advances by the length attempted, not by what was there.
SelectionAdvances ==
    sLast.op = "selection" =>
        cursor = <<"Index", CursorIndex(sLast.before) + CursorLen(sLast.before)>>

SelectionAdvancesWitness ==
    /\ sLast.op = "selection"
    /\ sLast.ret = SelectionEndOfFile
    /\ Len(source) = 1
    /\ sLast.before = <<"Slice", 0, 3>>
    /\ cursor = <<"Index", 3>>

\* the value peek(count) reports with the cursor at c: the selection of a
\* span of count starting where the pending span of c ends
PeekReport(c, count) ==
    ScannerMaterialize(source, CursorExtend(<<"Index", CursorIndex(c) + CursorLen(c)>>, count))

PeekKeepsCursor ==
    /\ sLast.op = "peek" =>
           /\ cursor = sLast.before
           /\ sLast.ret = PeekReport(sLast.before, sLast.arg)
    /\ (sPrev.op = "peek" /\ sLast.op = "peek" /\ sPrev.arg = sLast.arg) =>
           sLast.ret = sPrev.ret

\* peek(1), take(1), selection() were the last three calls
PeekTakeSelection ==
    /\ seen.age = 2
    /\ seen.arg = 1
    /\ sPrev.op = "take"
    /\ sPrev.arg = 1
    /\ sLast.op = "selection"

\* what C13 says: peek(count) leaves the cursor alone, two peeks in a row
\* report the same, and take(1) + selection() after peek(1) returns what the
\* peek reported.
PeekNonDestructiveAlways ==
    /\ PeekKeepsCursor
    /\ PeekTakeSelection => sLast.ret = seen.ret

\* C13 as amended: peek(count) leaves the cursor alone and reports the
\* selection of count items starting after the pending span, two peeks in a
\* row report the same, and take(1) + selection() after peek(1) returns what
\* the peek reported when the cursor was in the Index state at the peek.
PeekNonDestructive ==
    /\ PeekKeepsCursor
    /\ (PeekTakeSelection /\ seen.before[1] = "Index") => sLast.ret = seen.ret

PeekNonDestructiveWitness ==
    /\ PeekTakeSelection
    /\ seen.before = <<"Index", 1>>
    /\ seen.ret = SelectionChar(233)
    /\ sLast.ret = SelectionChar(233)
    /\ cursor = <<"Index", 2>>

\* the k items of items from offset on, as selection() is to return them:
\* Char for one item, Slice for more, EndOfFile if items ends before
\* offset + k; text(span) is the &str of a span of items
SpanOfChars(items, offset, k) ==
    IF offset + k > Len(items) THEN SelectionEndOfFile
    ELSE IF k = 1 THEN SelectionChar(items[offset + 1])
    ELSE SelectionSlice(EncodeStr(SubSeq(items, offset + 1, offset + k)))

SpanOfBytes(items, offset, k) ==
    IF offset + k > Len(items) THEN SelectionEndOfFile
    ELSE IF k = 1 THEN SelectionChar(items[offset + 1])
    ELSE SelectionSlice(SubSeq(items, offset + 1, offset + k))

\* C14: while every take(k) had k >= 1 and was followed by its selection(),
\* a selection() after take(k) returns the k items that follow the items
\* taken before (Char for k = 1, Slice otherwise) if the source has them and
\* EndOfFile if not, and a selection() with nothing taken returns Empty; the
\* items of the source are its characters, or else its bytes.
TakeSeries ==
    (sLast.op = "selection" /\ steps.plain) =>
        LET k == sLast.arg
            offset == steps.taken - k
        IN IF k = 0 THEN sLast.ret = SelectionEmpty
           ELSE \/ sLast.ret = SpanOfChars(Utf8Chars(source), offset, k)
                \/ sLast.ret = SpanOfBytes(source, offset, k)

\* C15: selection() returns EndOfFile only if a span of one item or more was
\* pending: with nothing taken, or with counts of 0 taken, it does not.
EndOfFileOnlyForSpan ==
    (sLast.op = "selection" /\ sLast.ret = SelectionEndOfFile) =>
        /\ sLast.arg > 0
        /\ CursorLen(sLast.before) > 0

\* ---------------------------------------------------------------- Value: properties

\* the types C16 names: the integer widths, bool, list of values, &str, String
RoundTripTypes ==
    {"u8", "u16", "u32", "u64", "usize", "i8", "i16", "i32", "i64", "isize",
     "bool", "Vec<Value>", "&str", "String"}

\* Value::from(x).into_inner() asked for as the type of x is Ok(x)
RoundTripPlain ==
    (origin.ty \in RoundTripTypes /\ ~origin.opt /\ inner.ty = origin.ty /\ ~inner.opt) =>
        inner.ret = Ok(origin.x)

\* Value::from(o) of an Option<T> is Null for None, and into_inner() asked for
\* as Option<T> is Ok(o)
RoundTripOption ==
    (origin.ty \in RoundTripTypes /\ origin.opt) =>
        /\ value # NoImpl
        /\ origin.x = None => value = ValueNull
        /\ (inner.ty = origin.ty /\ inner.opt) => inner.ret = Ok(origin.x)

\* what C16 says: both hold for every type it names.
ValueRoundTripAlways == RoundTripPlain /\ RoundTripOption

\* C16 as amended: Value::from(x).into_inner() asked for as the type of x is
\* Ok(x) for the integer widths, bool, list of values, &str and String; the
\* Option<T> round trip holds for the integer widths, bool and list of
\* values, and there is no conversion from Option<&str> or Option<String>
\* nor back into them.
ValueRoundTrip ==
    /\ RoundTripPlain
    /\ origin.ty \in ImplFromTypes => RoundTripOption
    /\ (origin.ty \in {"&str", "String"} /\ origin.opt) => value = NoImpl
    /\ (inner.ty \in {"&str", "String"} /\ inner.opt) => inner.ret = NoImpl

ValueRoundTripWitness ==
    /\ origin.ty = "Vec<Value>"
    /\ origin.opt
    /\ origin.x = Some(<<ValueNull>>)
    /\ value = <<"List", <<ValueNull>>>>
    /\ inner.ty = "Vec<Value>"
    /\ inner.opt
    /\ inner.ret = Ok(Some(<<ValueNull>>))

\* ---------------------------------------------------------------- lookahead: properties

\* C17: when buffer(count) or peek() of either layer returns nothing, the
\* stream is exhausted and the queue holds every byte not consumed; while
\* only next() follows, the bytes consumed since and the queue are the input
\* that remained, in order, and so are the characters returned since and those
\* of the queue if that input is well-formed.
FailedLookaheadKeeps ==
    /\ (last.op \in {"buffer", "peek", "chars.buffer", "chars.peek"} /\ last.ret = None) =>
           /\ fail.on
           /\ iter = <<>>
           /\ buffer = Drop(input, Len(consumed))
    /\ fail.on =>
           LET rest == Drop(input, fail.at) IN
           /\ iter = <<>>
           /\ Drop(consumed, fail.at) \o buffer = rest
           /\ Utf8Valid(rest) =>
                  Drop(out, fail.outAt) \o Utf8Chars(buffer) = Utf8Chars(rest)

FailedLookaheadKeepsWitness ==
    /\ input = EncodeStr(<<97, 8364>>)
    /\ fail = [on |-> TRUE, at |-> 1, outAt |-> 1]
    /\ prev.op = "chars.buffer"
    /\ prev.arg = 2
    /\ prev.ret = None
    /\ last.op = "chars.next"
    /\ last.ret = Some(8364)
    /\ out = <<97, 8364>>
    /\ buffer = <<>>

\* the bytes not consumed yet: the queue, then what the stream still holds
Remaining == Drop(input, Len(consumed))

\* the first n bytes of bs are well-formed and hold count characters or more
ValidWindow(bs, n, count) ==
    /\ Utf8Valid(Take(bs, n))
    /\ Len(Utf8Chars(Take(bs, n))) >= count

\* C18: when the bytes not consumed are well-formed UTF-8 holding count
\* characters or more, SourceChars::buffer(count) and look(count) return the
\* shortest prefix of them that is well-formed and holds count characters or
\* more, which is the encoding of their first count characters, whatever
\* the queue held before.
BufferSmallestWindow ==
    (/\ last.op = "chars.buffer"
     /\ Utf8Valid(Remaining)
     /\ Len(Utf8Chars(Remaining)) >= last.arg) =>
        /\ last.ret # None
        /\ LET slice == last.ret[1] IN
           /\ slice = Take(Remaining, Len(slice))
           /\ ValidWindow(Remaining, Len(slice), last.arg)
           /\ \A n \in 0..(Len(slice) - 1) : ~ValidWindow(Remaining, n, last.arg)
           /\ slice = EncodeStr(Take(Utf8Chars(Remaining), last.arg))

BufferSmallestWindowWitness ==
    /\ input = EncodeStr(<<8364, 233>>)
    /\ prev.op = "chars.buffer"
    /\ prev.arg = 2
    /\ prev.ret = Some(input)
    /\ last.op = "chars.buffer"
    /\ last.arg = 1
    /\ last.ret = Some(EncodeStr(<<8364>>))
    /\ buffer = input

\* ---------------------------------------------------------------- SourceChars::buffer: termination

\* C19: a call of SourceChars::buffer(count) returns: the loop ends with a
\* slice that holds count characters or with None.
BufferReturns == (pc \in {"loop", "test"}) ~> (pc = "returned")

\* ---------------------------------------------------------------- SourceChars::next: ill-formed bytes

\* C20: once SourceChars::next has returned nothing, every later call returns
\* nothing too, whether the stream ended or its bytes were ill-formed.
DecoderStops ==
    (prev.op = "chars.next" /\ prev.ret = None /\ last.op = "chars.next") =>
        last.ret = None

\* ---------------------------------------------------------------- SourceChars::next: bytes taken

\* the bytes the byte source still holds: its queue, then its stream
Held == buffer \o iter

\* C21: a call of SourceChars::next removes from the byte source its next n
\* bytes, n at most 4, and leaves the bytes after them where they were; when
\* it returns a character, the n bytes are the 1 to 4 bytes of the encoding
\* of that character, one complete well-formed sequence.
NextTakesOneChar ==
    [][last'.op = "chars.next" =>
          LET n == Len(consumed') - Len(consumed)
              taken == Drop(consumed', Len(consumed))
          IN /\ consumed = Take(consumed', Len(consumed))
             /\ n >= 0
             /\ n <= 4
             /\ taken = Take(Held, n)
             /\ Held' = Drop(Held, n)
             /\ last'.ret # None =>
                    /\ n >= 1
                    /\ taken = EncodeChar(last'.ret[1])
                    /\ Utf8SeqLen(taken) = n
                    /\ out' = Append(out, last'.ret[1])]_vars

NextTakesOneCharWitness ==
    /\ input = EncodeStr(<<8364, 128512>>)
    /\ prev.op = "buffer"
    /\ prev.arg = 1
    /\ last.op = "chars.next"
    /\ last.ret = Some(8364)
    /\ last.pulled = 2
    /\ consumed = EncodeChar(8364)
    /\ buffer = <<>>
    /\ iter = EncodeChar(128512)

\* ---------------------------------------------------------------- Cursor: accumulated length

\* C22: extend(a) followed by extend(b) leaves the index() and the len() that
\* one extend(a + b) leaves, from every cursor reached and for the two calls
\* made last; and len() after extend(count) is len() before plus count.
ExtendAdditive ==
    /\ cLast.op = "extend" =>
           /\ CursorLen(cursor) = CursorLen(cLast.before) + cLast.arg
           /\ CursorIndex(cursor) = CursorIndex(cLast.before)
    /\ (cPrev.op = "extend" /\ cLast.op = "extend") =>
           LET once == CursorExtend(cPrev.before, cPrev.arg + cLast.arg) IN
           /\ CursorIndex(cursor) = CursorIndex(once)
           /\ CursorLen(cursor) = CursorLen(once)
    /\ \A a, b \in 0..MaxExtend :
           LET twice == CursorExtend(CursorExtend(cursor, a), b)
               once == CursorExtend(cursor, a + b)
           IN /\ CursorIndex(twice) = CursorIndex(once)
              /\ CursorLen(twice) = CursorLen(once)

ExtendAdditiveWitness ==
    /\ cPrev.op = "extend"
    /\ cPrev.before = <<"Index", 3>>
    /\ cPrev.arg = 1
    /\ cLast.op = "extend"
    /\ cLast.before = <<"Char", 3>>
    /\ cLast.arg = 2
    /\ cursor = <<"Slice", 3, 3>>

\* ---------------------------------------------------------------- SourceBytes: how far the stream is read

\* the items the stream has yielded so far
StreamRead == Len(input) - Len(iter)

\* C23: buffer(n) and look(n) with q items queued pull max(0, n - q) items
\* from the stream, fewer only when the stream ends first, and append them to
\* the queue; so the stream is never read past the furthest item a lookahead
\* has asked for, nor past the items consumed when that is further.
NeverOverReads ==
    /\ [](StreamRead <= Max(reach, Len(consumed)))
    /\ [][last'.op = "buffer" =>
              LET want == Max(0, last'.arg - Len(buffer)) IN
              /\ last'.pulled = Min(want, Len(iter))
              /\ last'.pulled < want => iter' = <<>>
              /\ iter' = Drop(iter, last'.pulled)
              /\ buffer' = buffer \o Take(iter, last'.pulled)]_vars

NeverOverReadsWitness ==
    /\ prev.op = "next"
    /\ last.op = "buffer"
    /\ last.arg = 2
    /\ last.pulled = 1
    /\ Len(consumed) = 1
    /\ Len(buffer) = 2
    /\ reach = 3
    /\ StreamRead = 3
    /\ iter # <<>>

\* ---------------------------------------------------------------- Cursor: is_empty

\* C24: in every cursor reached from Cursor::new() by extend and advance,
\* is_empty() is true exactly when len() is 0.
IsEmptyIffLenZero ==
    CursorIsEmpty(cursor) <=> (CursorLen(cursor) = 0)

IsEmptyIffLenZeroWitness ==
    /\ cPrev.op = "advance"
    /\ cLast.op = "extend"
    /\ cLast.arg = 0
    /\ cursor = <<"Slice", 2, 0>>
    /\ CursorIsEmpty(cursor)
    /\ CursorLen(cursor) = 0

====
